---- MODULE Spec2Model ----
(***************************************************************************)
(* TimeTracker: the session engine (src/time_tracker.py) over the SQLite   *)
(* backend of the record store (src/database.py), with the helpers of      *)
(* src/utils.py and the value classes of src/models.py.                    *)
(*                                                                         *)
(* A timestamp string "%Y-%m-%d %H:%M:%S" is the record [date, time]: the  *)
(* calendar day and the second of that day.  Python's None / SQL NULL is   *)
(* the empty tuple <<>>, a present value x is <<x>>.  Text (task labels,   *)
(* duration text) is a sequence of one-character strings.                  *)
(***************************************************************************)
EXTENDS Integers, Sequences, FiniteSets, TLC

\* ---- bounds of the model ------------------------------------------------
MaxSessions == 2       \* rows ever inserted into work_sessions
MaxEntries == 1        \* rows ever inserted into manual_entries
MaxItems == 3          \* sessions and entries added to one DailySummary object
MaxHours == 100        \* the most hours in a duration that is formatted
MaxTime == 3           \* instants the clock passes: day 0 00:00:00, 00:00:01,
                       \* day 1 00:00:00, 00:00:01, day 2 00:00:00, ...

\* ---- constants of the program -------------------------------------------
SecondsPerDay == 86400

None == <<>>
Some(x) == <<x>>
Val(o) == o[1]

\* the engine instances: app.py and web_app.py each construct a
\* TimeTrackerCore over config.DATABASE_PATH
Engines == {1, 2}

\* task labels offered to start(): no label, "A"
TaskNames == {None, Some(<<"A">>)}

\* the inputs offered to addManualEntry(): " ", " A" and "90m", "0h"
EntryTaskNames == {<<" ">>, <<" ", "A">>}
DurationTexts == {<<"9", "0", "m">>, <<"0", "h">>}

\* further duration texts, offered where the entries are looked at alone:
\* "x", "-1", ""
OtherDurationTexts == {<<"x">>, <<"-", "1">>, <<>>}

\* the date offered to addManualEntry() by a caller that passes one
EntryDates == {0}

\* the dates offered to the summary: none given, or a day
\* durations in seconds handed to the formatters: hours, minutes and seconds
\* at the edges of their ranges, and negative durations
FormatHours == {0, 1, 2, 10, MaxHours - 1, MaxHours}
FormatMinutes == {0, 1, 30, 59}
FormatSecs == {0, 1, 45, 59}
FormatSeconds ==
  {h * 3600 + m * 60 + s : h \in FormatHours, m \in FormatMinutes, s \in FormatSecs}
    \cup {-1, -60, -3600}

SummaryDates == {None, Some(0)}

VARIABLES
  clock,                  \* host clock, in seconds since midnight of day 0
  work_sessions,          \* table work_sessions: id -> row
  seq_work_sessions,      \* AUTOINCREMENT counter of work_sessions
  manual_entries,         \* table manual_entries: id -> row
  seq_manual_entries,     \* AUTOINCREMENT counter of manual_entries
  up,                     \* up[e]: engine e is constructed (its process runs)
  current_session_id,     \* current_session_id[e]: the field of engine e
  op,                     \* the last operation called: [name, e, arg]
  pre,                    \* the clock, the store and the engines when it was called
  ret                     \* what it returned: [exc, val]

vars == <<clock, work_sessions, seq_work_sessions, manual_entries,
          seq_manual_entries, up, current_session_id, op, pre, ret>>

store == <<work_sessions, seq_work_sessions, manual_entries, seq_manual_entries>>

\* the state an operation is called in
Snapshot ==
  [clock |-> clock, work_sessions |-> work_sessions,
   seq_work_sessions |-> seq_work_sessions, manual_entries |-> manual_entries,
   seq_manual_entries |-> seq_manual_entries, current_session_id |-> current_session_id]

\* operation name is called on engine e with argument arg
Call(name, e, arg) == op' = [name |-> name, e |-> e, arg |-> arg] /\ pre' = Snapshot

Return(v) == [exc |-> None, val |-> v]
Raise(x) == [exc |-> Some(x), val |-> None]

\* ---- src/utils.py: clock and timestamps ---------------------------------

\* datetime.now().strftime(DATETIME_FORMAT)
get_current_datetime == [date |-> clock \div SecondsPerDay, time |-> clock % SecondsPerDay]

\* datetime.now().strftime(DATE_FORMAT)
get_today_date == clock \div SecondsPerDay

\* datetime.strptime(s, DATETIME_FORMAT), as seconds since midnight of day 0
parse_datetime(ts) == ts.date * SecondsPerDay + ts.time

\* mutant: the difference of the times of day, the dates ignored
calculate_duration_seconds_same_day(start_time_str, end_time_str) ==
  end_time_str.time - start_time_str.time

\* int((end - start).total_seconds())
calculate_duration_seconds(start_time_str, end_time_str) ==
  parse_datetime(end_time_str) - parse_datetime(start_time_str)

\* the order of ORDER BY start_time on timestamp strings
TsLeq(a, b) == a.date < b.date \/ (a.date = b.date /\ a.time <= b.time)

\* ---- src/utils.py: duration text ------------------------------------------

Digit == <<"0", "1", "2", "3", "4", "5", "6", "7", "8", "9">>
Upper == <<"A", "B", "C", "D", "E", "F", "G", "H", "I", "J", "K", "L", "M",
           "N", "O", "P", "Q", "R", "S", "T", "U", "V", "W", "X", "Y", "Z">>
Lower == <<"a", "b", "c", "d", "e", "f", "g", "h", "i", "j", "k", "l", "m",
           "n", "o", "p", "q", "r", "s", "t", "u", "v", "w", "x", "y", "z">>

IsDigit(c) == \E i \in DOMAIN Digit : Digit[i] = c
DigitVal(c) == (CHOOSE i \in DOMAIN Digit : Digit[i] = c) - 1
IsSpace(c) == c \in {" ", "\t", "\n"}

\* str(n) for n >= 0, as characters
RECURSIVE ToStr(_)
ToStr(n) == IF n < 10 THEN <<Digit[n + 1]>> ELSE ToStr(n \div 10) \o <<Digit[(n % 10) + 1]>>

\* str.strip()
RECURSIVE lstrip(_)
lstrip(s) == IF s # <<>> /\ IsSpace(Head(s)) THEN lstrip(Tail(s)) ELSE s
RECURSIVE rstrip(_)
rstrip(s) ==
  IF s # <<>> /\ IsSpace(s[Len(s)]) THEN rstrip(SubSeq(s, 1, Len(s) - 1)) ELSE s
strip(s) == rstrip(lstrip(s))

\* str.lower()
lower_char(c) ==
  IF \E i \in DOMAIN Upper : Upper[i] = c
  THEN Lower[CHOOSE i \in DOMAIN Upper : Upper[i] = c] ELSE c
lower(s) == [i \in DOMAIN s |-> lower_char(s[i])]

\* mutant: every unit down to the second one is shown, zero or not
format_duration_zero_units(seconds) ==
  IF seconds < 0 THEN <<"0", "s">>
  ELSE LET hours == seconds \div 3600
           minutes == (seconds % 3600) \div 60
           secs == seconds % 60
       IN IF hours > 0
          THEN ToStr(hours) \o <<"h", " ">> \o ToStr(minutes) \o <<"m">>
          ELSE IF minutes > 0
               THEN ToStr(minutes) \o <<"m", " ">> \o ToStr(secs) \o <<"s">>
               ELSE ToStr(secs) \o <<"s">>

\* format_duration(seconds): "2h 30m", "45m 10s", "30s"
format_duration(seconds) ==
  IF seconds < 0 THEN <<"0", "s">>
  ELSE LET hours == seconds \div 3600
           minutes == (seconds % 3600) \div 60
           secs == seconds % 60
       IN IF hours > 0
          THEN IF minutes > 0
               THEN ToStr(hours) \o <<"h", " ">> \o ToStr(minutes) \o <<"m">>
               ELSE ToStr(hours) \o <<"h">>
          ELSE IF minutes > 0
               THEN IF secs > 0
                    THEN ToStr(minutes) \o <<"m", " ">> \o ToStr(secs) \o <<"s">>
                    ELSE ToStr(minutes) \o <<"m">>
               ELSE ToStr(secs) \o <<"s">>

\* format(n, "02d") for n >= 0
zero_padded(n) == IF n < 10 THEN <<"0">> \o ToStr(n) ELSE ToStr(n)

\* mutant: the fields are not padded to two digits
format_duration_detailed_unpadded(seconds) ==
  IF seconds < 0 THEN <<"0", "0", ":", "0", "0", ":", "0", "0">>
  ELSE ToStr(seconds \div 3600) \o <<":">> \o ToStr((seconds % 3600) \div 60)
         \o <<":">> \o ToStr(seconds % 60)

\* format_duration_detailed(seconds): "02:30:45"
format_duration_detailed(seconds) ==
  IF seconds < 0 THEN <<"0", "0", ":", "0", "0", ":", "0", "0">>
  ELSE LET hours == seconds \div 3600
           minutes == (seconds % 3600) \div 60
           secs == seconds % 60
       IN zero_padded(hours) \o <<":">> \o zero_padded(minutes)
            \o <<":">> \o zero_padded(secs)

\* the index after the longest run of digits of s that starts at i
RECURSIVE DigitsEnd(_, _)
DigitsEnd(s, i) == IF i <= Len(s) /\ IsDigit(s[i]) THEN DigitsEnd(s, i + 1) ELSE i

\* the index after the longest run of whitespace of s that starts at i
RECURSIVE SpacesEnd(_, _)
SpacesEnd(s, i) == IF i <= Len(s) /\ IsSpace(s[i]) THEN SpacesEnd(s, i + 1) ELSE i

\* the index after the number \d+(?:\.\d+)? that starts at i (s[i] is a digit)
NumberEnd(s, i) ==
  LET j == DigitsEnd(s, i)
  IN IF j + 1 <= Len(s) /\ s[j] = "." /\ IsDigit(s[j + 1]) THEN DigitsEnd(s, j + 1) ELSE j

\* the pattern (\d+(?:\.\d+)?)\s*<unit> matches s at i.  A shorter number
\* leaves a digit or the "." next, which is neither whitespace nor the unit,
\* so only the longest number can be followed by \s*<unit>.
MatchesAt(s, i, unit) ==
  /\ IsDigit(s[i])
  /\ LET k == SpacesEnd(s, NumberEnd(s, i)) IN k <= Len(s) /\ s[k] = unit

\* re.search: group(1) of the leftmost match, or None
re_search(s, unit) ==
  LET starts == {i \in DOMAIN s : MatchesAt(s, i, unit)}
  IN IF starts = {} THEN None
     ELSE LET i == CHOOSE m \in starts : \A n \in starts : m <= n
          IN Some(SubSeq(s, i, NumberEnd(s, i) - 1))

\* the digits of a decimal numeral as an integer, and 10^(its fraction digits)
RECURSIVE Mantissa(_)
Mantissa(num) ==
  IF num = <<>> THEN 0
  ELSE IF num[Len(num)] = "." THEN Mantissa(SubSeq(num, 1, Len(num) - 1))
  ELSE Mantissa(SubSeq(num, 1, Len(num) - 1)) * 10 + DigitVal(num[Len(num)])
RECURSIVE Scale(_)
Scale(num) ==
  IF num = <<>> \/ ~(\E i \in DOMAIN num : num[i] = ".") THEN 1
  ELSE IF num[Len(num)] = "." THEN 1
  ELSE 10 * Scale(SubSeq(num, 1, Len(num) - 1))

\* The numerals, of those with at most one fraction digit below 8, whose
\* product with 3600 and with 60 in IEEE-754 double arithmetic lies below the
\* exact product: float("4.1") * 3600 = 14759.999999999998 and
\* float("4.1") * 60 = 245.99999999999997.
FloatProductBelow == {<<"4", ".", "1">>}

\* int(float(num) * factor) for an unsigned decimal numeral: int() truncates
\* the double product, which is the exact product or the double next below it
int_times(num, factor) ==
  LET exact == (Mantissa(num) * factor) \div Scale(num)
  IN IF num \in FloatProductBelow THEN exact - 1 ELSE exact

\* float(s) accepts s: an optional sign and a decimal numeral with at least
\* one digit (the texts of the model carry no exponent, "inf", "nan" or "_")
IsNumeral(s) ==
  /\ s # <<>>
  /\ \A i \in DOMAIN s : IsDigit(s[i]) \/ s[i] = "."
  /\ \E i \in DOMAIN s : IsDigit(s[i])
  /\ Cardinality({i \in DOMAIN s : s[i] = "."}) <= 1
IsFloat(s) ==
  \/ IsNumeral(s)
  \/ s # <<>> /\ s[1] \in {"-", "+"} /\ IsNumeral(Tail(s))

\* int(float(s) * 3600): int() truncates toward zero
int_hours(s) ==
  IF s[1] = "-" THEN 0 - int_times(Tail(s), 3600)
  ELSE IF s[1] = "+" THEN int_times(Tail(s), 3600)
  ELSE int_times(s, 3600)

\* parse_duration(duration_str): seconds, or None
parse_duration(duration_str) ==
  IF duration_str = <<>> \/ strip(duration_str) = <<>> THEN None
  ELSE LET s == lower(strip(duration_str))
           hour_match == re_search(s, "h")
           minute_match == re_search(s, "m")
           h == IF hour_match # None THEN int_times(Val(hour_match), 3600) ELSE 0
           m == IF minute_match # None THEN int_times(Val(minute_match), 60) ELSE 0
       IN IF hour_match # None \/ minute_match # None THEN Some(h + m)
          ELSE IF IsFloat(s) THEN Some(int_hours(s))
          ELSE None

\* ---- the duration texts offered to parse_duration --------------------------
\* A text is put together from parts, and the parts say what it means: the
\* numerals carry their value in tenths.

NumberLexemes ==
  {[text |-> <<"0">>, tenths |-> 0], [text |-> <<"2">>, tenths |-> 20],
   [text |-> <<"3", "0">>, tenths |-> 300], [text |-> <<"9", "0">>, tenths |-> 900],
   [text |-> <<"1", ".", "5">>, tenths |-> 15], [text |-> <<"4", ".", "1">>, tenths |-> 41]}
HourNumbers == {n \in NumberLexemes : n.tenths \in {0, 20, 15, 41}}
MinuteNumbers == {n \in NumberLexemes : n.tenths \in {300, 900, 41}}
Gaps == {<<>>, <<" ">>}

\* texts with an hour token, a minute token, both or none, in either order,
\* between other text: "2h 30m", "30m2h", "x 1.5 H extra", "-4.1h", " "
TokenTexts ==
  [kind : {"tokens"},
   lead : {<<>>, <<" ">>, <<"x", " ">>, <<"-">>},
   h : {None} \cup {Some(t) : t \in [num : HourNumbers, gap : Gaps]},
   sep : Gaps,
   m : {None} \cup {Some(t) : t \in [num : MinuteNumbers, gap : Gaps]},
   order : {"hm", "mh"},
   tail : {<<>>, <<" ">>, <<" ", "e", "x", "t", "r", "a">>},
   upper : BOOLEAN]

\* texts without a unit letter: "", " ", "-", "x", "1.5", " -2 ", "+4.1", "30x"
BareTexts ==
  [kind : {"bare"},
   lead : Gaps,
   sign : {<<>>, <<"-">>, <<"+">>},
   num : {None} \cup {Some(n) : n \in NumberLexemes},
   tail : {<<>>, <<" ">>, <<"x">>}]

ParseInputs == TokenTexts \cup BareTexts

\* str.upper()
upper(s) ==
  [i \in DOMAIN s |->
     IF \E k \in DOMAIN Lower : Lower[k] = s[i]
     THEN Upper[CHOOSE k \in DOMAIN Lower : Lower[k] = s[i]] ELSE s[i]]

\* the text of an input
TextOf(input) ==
  IF input.kind = "bare"
  THEN input.lead \o input.sign
         \o (IF input.num = None THEN <<>> ELSE Val(input.num).text) \o input.tail
  ELSE LET hours == IF input.h = None THEN <<>>
                    ELSE Val(input.h).num.text \o Val(input.h).gap \o <<"h">>
           minutes == IF input.m = None THEN <<>>
                      ELSE Val(input.m).num.text \o Val(input.m).gap \o <<"m">>
           text == input.lead
                     \o (IF input.order = "hm" THEN hours \o input.sep \o minutes
                         ELSE minutes \o input.sep \o hours)
                     \o input.tail
       IN IF input.upper THEN upper(text) ELSE text

\* ---- src/models.py: value classes ----------------------------------------

\* the columns of the two tables (init_db): the keys of dict(row)
WorkSessionsColumns ==
  {"id", "start_time", "end_time", "duration", "task_name", "project", "notes", "created_at"}
ManualEntriesColumns ==
  {"id", "date", "duration", "task_name", "project", "notes", "created_at"}

\* the fields of the dataclasses
WorkSessionFields ==
  {"id", "start_time", "end_time", "duration", "task_name", "notes", "created_at"}
ManualEntryFields == {"id", "date", "duration", "task_name", "notes", "created_at"}

\* WorkSession(**session_data), ManualEntry(**entry_data): a keyword that is
\* no field of the dataclass raises TypeError
WorkSession_accepts(keys) == keys \subseteq WorkSessionFields
ManualEntry_accepts(keys) == keys \subseteq ManualEntryFields

\* Python truthiness of an optional int, of an optional str
TruthyInt(o) == o # None /\ Val(o) # 0
TruthyStr(o) == o # None /\ Val(o) # <<>>

\* WorkSession.calculate_current_duration()
calculate_current_duration(session) ==
  IF session.end_time # None
  THEN IF TruthyInt(session.duration) THEN Val(session.duration) ELSE 0
  ELSE calculate_duration_seconds(session.start_time, get_current_datetime)

\* DailySummary(date=date)
DailySummary(date) ==
  [date |-> date, total_duration |-> 0, session_count |-> 0,
   manual_entry_count |-> 0, tasks |-> <<>>]

\* mutant: no search for an existing task
add_task_appends(tasks, task_name, duration) ==
  Append(tasks, [name |-> task_name, duration |-> duration,
                 duration_formatted |-> format_duration(duration)])

\* DailySummary._add_task(task_name, duration)
add_task(tasks, task_name, duration) ==
  IF \E i \in DOMAIN tasks : tasks[i].name = task_name
  THEN LET i == CHOOSE k \in DOMAIN tasks :
                  tasks[k].name = task_name /\ \A j \in 1..(k - 1) : tasks[j].name # task_name
       IN [tasks EXCEPT ![i] =
             [name |-> task_name, duration |-> @.duration + duration,
              duration_formatted |-> format_duration(@.duration + duration)]]
  ELSE Append(tasks, [name |-> task_name, duration |-> duration,
                      duration_formatted |-> format_duration(duration)])

\* DailySummary.add_session(session)
add_session(summary, session) ==
  IF TruthyInt(session.duration)
  THEN [summary EXCEPT
          !.total_duration = @ + Val(session.duration),
          !.session_count = @ + 1,
          !.tasks = IF TruthyStr(session.task_name)
                    THEN add_task(@, Val(session.task_name), Val(session.duration))
                    ELSE @]
  ELSE summary

\* DailySummary.add_manual_entry(entry)
summary_add_manual_entry(summary, entry) ==
  [summary EXCEPT
     !.total_duration = @ + entry.duration,
     !.manual_entry_count = @ + 1,
     !.tasks = IF entry.task_name # <<>>
               THEN add_task(@, entry.task_name, entry.duration)
               ELSE @]

\* the WorkSession and ManualEntry objects offered to a DailySummary object:
\* sessions in progress, of 0 s, 15 min and 30 min, without a label and
\* under "A" and "a"; entries of 20 min and 30 min under "", "A" and "B"
SummarySessions ==
  {[id |-> None, start_time |-> [date |-> 0, time |-> 0],
    end_time |-> IF d = None THEN None ELSE Some([date |-> 0, time |-> Val(d)]),
    duration |-> d, task_name |-> t, notes |-> None, created_at |-> None] :
     d \in {None, Some(0), Some(900), Some(1800)},
     t \in {None, Some(<<"A">>), Some(<<"a">>)}}
SummaryEntries ==
  {[id |-> None, date |-> 0, duration |-> d, task_name |-> t, notes |-> None,
    created_at |-> None] :
     d \in {1200, 1800}, t \in {<<>>, <<"A">>, <<"B">>}}

\* ---- src/database.py: the record store (SQLite backend) -----------------

Without(table, id) == [i \in (DOMAIN table) \ {id} |-> table[i]]

\* mutant: the label is not written
create_work_session_row_no_label(task_name, project) ==
  [start_time |-> get_current_datetime, end_time |-> None, duration |-> None,
   task_name |-> None, project |-> project, notes |-> None]

\* INSERT INTO work_sessions (start_time, task_name, project)
create_work_session_row(task_name, project) ==
  [start_time |-> get_current_datetime, end_time |-> None, duration |-> None,
   task_name |-> task_name, project |-> project, notes |-> None]

\* mutant: the UPDATE sets end_time alone
end_work_session_row_no_duration(row, end_time) ==
  [row EXCEPT !.end_time = Some(end_time)]

\* UPDATE work_sessions SET end_time = ?, duration = ? WHERE id = ?
end_work_session_row(row, end_time) ==
  [row EXCEPT !.end_time = Some(end_time),
              !.duration = Some(calculate_duration_seconds(row.start_time, end_time))]

\* end_work_session(session_id): (success, the table afterwards)
\* mutant: the UPDATE has no WHERE clause
end_work_session_every_row(session_id) ==
  IF session_id \notin DOMAIN work_sessions
  THEN [success |-> FALSE, table |-> work_sessions]
  ELSE [success |-> TRUE,
        table |-> [id \in DOMAIN work_sessions |->
                     end_work_session_row(work_sessions[id], get_current_datetime)]]

end_work_session(session_id) ==
  IF session_id \notin DOMAIN work_sessions
  THEN [success |-> FALSE, table |-> work_sessions]
  ELSE [success |-> TRUE,
        table |-> [work_sessions EXCEPT
                     ![session_id] = end_work_session_row(@, get_current_datetime)]]

\* mutant: nothing is deleted
delete_session_keeps(session_id) == work_sessions

\* DELETE FROM work_sessions WHERE id = ?
delete_session(session_id) == Without(work_sessions, session_id)

\* mutant: the query finds no row
get_active_session_none == {}

\* mutant: the query without WHERE end_time IS NULL
get_active_session_any_row ==
  {i \in DOMAIN work_sessions :
     \A j \in DOMAIN work_sessions :
       TsLeq(work_sessions[j].start_time, work_sessions[i].start_time)}

\* mutant: ORDER BY start_time ASC
get_active_session_oldest ==
  LET unended == {i \in DOMAIN work_sessions : work_sessions[i].end_time = None}
  IN {i \in unended :
        \A j \in unended : TsLeq(work_sessions[i].start_time, work_sessions[j].start_time)}

\* SELECT * FROM work_sessions WHERE end_time IS NULL
\*   ORDER BY start_time DESC LIMIT 1
\* the ids the query may return: SQL leaves the order of equal start_time open
get_active_session ==
  LET unended == {i \in DOMAIN work_sessions : work_sessions[i].end_time = None}
  IN {i \in unended :
        \A j \in unended : TsLeq(work_sessions[j].start_time, work_sessions[i].start_time)}

\* SELECT * FROM work_sessions WHERE id = ?
get_session(session_id) ==
  IF session_id \in DOMAIN work_sessions THEN Some(work_sessions[session_id]) ELSE None

\* mutant: the date column is not written
add_manual_entry_row_no_date(task_name, duration, date) ==
  [date |-> 0, duration |-> duration, task_name |-> task_name,
   project |-> None, notes |-> None]

\* INSERT INTO manual_entries (date, duration, task_name, project, notes)
add_manual_entry_row(task_name, duration, date) ==
  [date |-> IF date = None THEN get_today_date ELSE Val(date),
   duration |-> duration, task_name |-> task_name, project |-> None, notes |-> None]

\* the ids of S as a sequence in the order of key[id]; rows with equal keys
\* are taken in rowid order, as a scan of the table meets them
RECURSIVE Ordered(_, _)
Ordered(S, key) ==
  IF S = {} THEN <<>>
  ELSE LET first == CHOOSE i \in S :
                      \A j \in S : key[i] < key[j] \/ (key[i] = key[j] /\ i <= j)
       IN <<first>> \o Ordered(S \ {first}, key)

\* SELECT * FROM work_sessions WHERE date(start_time) = today ORDER BY start_time
\* over the table given, on the day given: the ids in the order of the rows
today_sessions(table, today) ==
  Ordered({i \in DOMAIN table : table[i].start_time.date = today},
          [i \in DOMAIN table |-> parse_datetime(table[i].start_time)])
get_today_sessions == today_sessions(work_sessions, get_today_date)

\* SELECT * FROM manual_entries WHERE date = today ORDER BY created_at
today_manual_entries(table, today) ==
  Ordered({i \in DOMAIN table : table[i].date = today}, [i \in DOMAIN table |-> i])
get_today_manual_entries == today_manual_entries(manual_entries, get_today_date)

\* ---- src/time_tracker.py: TimeTrackerCore --------------------------------

\* mutant: the engine never sees itself active
is_session_active_never(e) == FALSE

is_session_active(e) == current_session_id[e] # None

\* mutant: the constructor does not load the active session
Construct_without_load(e) ==
  /\ ~up[e]
  /\ up' = [up EXCEPT ![e] = TRUE]
  /\ current_session_id' = [current_session_id EXCEPT ![e] = None]
  /\ Call("construct", e, None)
  /\ ret' = Return(None)
  /\ UNCHANGED <<clock, store>>

\* TimeTrackerCore(): __init__ and _load_active_session
Construct(e) ==
  /\ ~up[e]
  /\ up' = [up EXCEPT ![e] = TRUE]
  /\ IF get_active_session = {}
     THEN current_session_id' = [current_session_id EXCEPT ![e] = None]
     ELSE \E id \in get_active_session :
            current_session_id' = [current_session_id EXCEPT ![e] = Some(id)]
  /\ Call("construct", e, None)
  /\ ret' = Return(None)
  /\ UNCHANGED <<clock, store>>

\* the process of engine e ends; the store stays
Exit(e) ==
  /\ up[e]
  /\ up' = [up EXCEPT ![e] = FALSE]
  /\ current_session_id' = [current_session_id EXCEPT ![e] = None]
  /\ Call("exit", e, None)
  /\ ret' = Return(None)
  /\ UNCHANGED <<clock, store>>

\* mutant: the new id is one more than the largest id in the table, as for
\* a key that is not AUTOINCREMENT
start_session_rowid(e, task_name) ==
  /\ up[e]
  /\ Call("start", e, task_name)
  /\ IF is_session_active(e)
     THEN /\ ret' = Return(None)
          /\ UNCHANGED <<clock, store, up, current_session_id>>
     ELSE LET session_id ==
                IF work_sessions = <<>> THEN 1
                ELSE 1 + CHOOSE i \in DOMAIN work_sessions :
                             \A j \in DOMAIN work_sessions : j <= i
          IN /\ session_id <= MaxSessions
             /\ seq_work_sessions' = session_id
             /\ work_sessions' =
                  work_sessions @@ (session_id :> create_work_session_row(task_name, None))
             /\ current_session_id' = [current_session_id EXCEPT ![e] = Some(session_id)]
             /\ ret' = Return(Some(session_id))
             /\ UNCHANGED <<clock, manual_entries, seq_manual_entries, up>>

\* mutant: start also asks the store for an unended session
start_session_asks_store(e, task_name) ==
  /\ up[e]
  /\ Call("start", e, task_name)
  /\ IF is_session_active(e) \/ get_active_session # {}
     THEN /\ ret' = Return(None)
          /\ UNCHANGED <<clock, store, up, current_session_id>>
     ELSE LET session_id == seq_work_sessions + 1 IN
          /\ seq_work_sessions < MaxSessions
          /\ seq_work_sessions' = session_id
          /\ work_sessions' =
               work_sessions @@ (session_id :> create_work_session_row(task_name, None))
          /\ current_session_id' = [current_session_id EXCEPT ![e] = Some(session_id)]
          /\ ret' = Return(Some(session_id))
          /\ UNCHANGED <<clock, manual_entries, seq_manual_entries, up>>

start_session(e, task_name) ==
  /\ up[e]
  /\ Call("start", e, task_name)
  /\ IF is_session_active(e)
     THEN /\ ret' = Return(None)
          /\ UNCHANGED <<clock, store, up, current_session_id>>
     ELSE LET session_id == seq_work_sessions + 1 IN
          /\ seq_work_sessions < MaxSessions
          /\ seq_work_sessions' = session_id
          /\ work_sessions' =
               work_sessions @@ (session_id :> create_work_session_row(task_name, None))
          /\ current_session_id' = [current_session_id EXCEPT ![e] = Some(session_id)]
          /\ ret' = Return(Some(session_id))
          /\ UNCHANGED <<clock, manual_entries, seq_manual_entries, up>>

stop_session(e) ==
  /\ up[e]
  /\ Call("stop", e, None)
  /\ IF ~is_session_active(e)
     THEN /\ ret' = Return(FALSE)
          /\ UNCHANGED <<clock, store, up, current_session_id>>
     ELSE LET r == end_work_session(Val(current_session_id[e])) IN
          /\ work_sessions' = r.table
          /\ current_session_id' =
               IF r.success THEN [current_session_id EXCEPT ![e] = None]
               ELSE current_session_id
          /\ ret' = Return(r.success)
          /\ UNCHANGED <<clock, seq_work_sessions, manual_entries, seq_manual_entries, up>>

\* mutant: cancel without the check for an active session
cancel_current_session_unchecked(e) ==
  /\ up[e]
  /\ Call("cancel", e, None)
  /\ work_sessions' =
       IF current_session_id[e] = None THEN work_sessions
       ELSE delete_session(Val(current_session_id[e]))
  /\ current_session_id' = [current_session_id EXCEPT ![e] = None]
  /\ ret' = Return(TRUE)
  /\ UNCHANGED <<clock, seq_work_sessions, manual_entries, seq_manual_entries, up>>

cancel_current_session(e) ==
  /\ up[e]
  /\ Call("cancel", e, None)
  /\ IF ~is_session_active(e)
     THEN /\ ret' = Return(FALSE)
          /\ UNCHANGED <<clock, store, up, current_session_id>>
     ELSE /\ work_sessions' = delete_session(Val(current_session_id[e]))
          /\ current_session_id' = [current_session_id EXCEPT ![e] = None]
          /\ ret' = Return(TRUE)
          /\ UNCHANGED <<clock, seq_work_sessions, manual_entries, seq_manual_entries, up>>

\* ---- the engine over a database whose statements may raise ---------------

\* Database.get_connection(): the statements of the with block are committed
\* when the block ends; when one raises they are rolled back and the
\* exception goes on to the caller
get_connection(before, after, raises) ==
  [exc |-> IF raises THEN Some("OperationalError") ELSE None,
   db |-> IF raises THEN before ELSE after]

\* the tables a session call writes, and the sequence of the ids
SessionTables == [table |-> work_sessions, seq |-> seq_work_sessions]

\* start_session(task_name) when the INSERT or its commit may raise
start_session_storage(e, task_name, raises) ==
  /\ up[e]
  /\ Call("start", e, task_name)
  /\ IF is_session_active(e)
     THEN /\ ret' = Return(None)
          /\ UNCHANGED <<clock, store, up, current_session_id>>
     ELSE LET session_id == seq_work_sessions + 1
              tx == get_connection(
                      SessionTables,
                      [table |-> work_sessions @@
                                   (session_id :> create_work_session_row(task_name, None)),
                       seq |-> session_id],
                      raises)
          IN /\ seq_work_sessions < MaxSessions
             /\ work_sessions' = tx.db.table
             /\ seq_work_sessions' = tx.db.seq
             /\ IF tx.exc # None
                THEN /\ ret' = [exc |-> tx.exc, val |-> None]
                     /\ UNCHANGED current_session_id
                ELSE /\ current_session_id' =
                          [current_session_id EXCEPT ![e] = Some(session_id)]
                     /\ ret' = Return(Some(session_id))
             /\ UNCHANGED <<clock, manual_entries, seq_manual_entries, up>>

\* mutant: the engine forgets its session whatever the update reported
stop_session_storage_always_clears(e, raises) ==
  /\ up[e]
  /\ Call("stop", e, None)
  /\ IF ~is_session_active(e)
     THEN /\ ret' = Return(FALSE)
          /\ UNCHANGED <<clock, store, up, current_session_id>>
     ELSE LET r == end_work_session(Val(current_session_id[e]))
              tx == get_connection(SessionTables,
                                   [table |-> r.table, seq |-> seq_work_sessions],
                                   raises)
          IN /\ work_sessions' = tx.db.table
             /\ current_session_id' = [current_session_id EXCEPT ![e] = None]
             /\ ret' = IF tx.exc # None THEN [exc |-> tx.exc, val |-> None]
                       ELSE Return(r.success)
             /\ UNCHANGED <<clock, seq_work_sessions, manual_entries,
                            seq_manual_entries, up>>

\* stop_session() when the SELECT, the UPDATE or the commit may raise
stop_session_storage(e, raises) ==
  /\ up[e]
  /\ Call("stop", e, None)
  /\ IF ~is_session_active(e)
     THEN /\ ret' = Return(FALSE)
          /\ UNCHANGED <<clock, store, up, current_session_id>>
     ELSE LET r == end_work_session(Val(current_session_id[e]))
              tx == get_connection(SessionTables,
                                   [table |-> r.table, seq |-> seq_work_sessions],
                                   raises)
          IN /\ work_sessions' = tx.db.table
             /\ IF tx.exc # None
                THEN /\ ret' = [exc |-> tx.exc, val |-> None]
                     /\ UNCHANGED current_session_id
                ELSE /\ current_session_id' =
                          IF r.success THEN [current_session_id EXCEPT ![e] = None]
                          ELSE current_session_id
                     /\ ret' = Return(r.success)
             /\ UNCHANGED <<clock, seq_work_sessions, manual_entries,
                            seq_manual_entries, up>>

\* cancel_current_session() when the DELETE or its commit may raise
cancel_current_session_storage(e, raises) ==
  /\ up[e]
  /\ Call("cancel", e, None)
  /\ IF ~is_session_active(e)
     THEN /\ ret' = Return(FALSE)
          /\ UNCHANGED <<clock, store, up, current_session_id>>
     ELSE LET tx == get_connection(
                      SessionTables,
                      [table |-> delete_session(Val(current_session_id[e])),
                       seq |-> seq_work_sessions],
                      raises)
          IN /\ work_sessions' = tx.db.table
             /\ IF tx.exc # None
                THEN /\ ret' = [exc |-> tx.exc, val |-> None]
                     /\ UNCHANGED current_session_id
                ELSE /\ current_session_id' = [current_session_id EXCEPT ![e] = None]
                     /\ ret' = Return(TRUE)
             /\ UNCHANGED <<clock, seq_work_sessions, manual_entries,
                            seq_manual_entries, up>>

\* get_current_session(): the session object, None, or TypeError
get_current_session(e) ==
  IF ~is_session_active(e) THEN Return(None)
  ELSE LET session_data == get_session(Val(current_session_id[e]))
       IN IF session_data = None THEN Return(None)
          ELSE IF WorkSession_accepts(WorkSessionsColumns) THEN Return(session_data)
          ELSE Raise("TypeError")

get_current_session_duration(e) ==
  /\ up[e]
  /\ Call("currentDuration", e, None)
  /\ LET session == get_current_session(e)
     IN ret' = IF session.exc # None THEN session
               ELSE IF session.val # None
                    THEN Return(calculate_current_duration(Val(session.val)))
                    ELSE Return(0)
  /\ UNCHANGED <<clock, store, up, current_session_id>>

\* utils.parse_duration and str.strip on the inputs offered, evaluated once
ParsedTexts == [d \in DurationTexts \cup OtherDurationTexts |-> parse_duration(d)]
StrippedNames == [t \in EntryTaskNames |-> strip(t)]

MsgInvalidDuration ==
  "Invalid duration format. Use formats like '2h 30m', '90m', or '1.5h'."
MsgEmptyTask == "Task name cannot be empty."

\* mutant: a duration of 0 passes
invalid_duration_negative(duration) == duration = None \/ Val(duration) < 0

\* if duration is None or duration <= 0
invalid_duration(duration) == duration = None \/ Val(duration) <= 0

\* mutant: no manual entry is taken while the timer runs
add_manual_entry_timer_off(e, task_name, duration_str) ==
  /\ up[e]
  /\ Call("addManualEntry", e, <<task_name, duration_str>>)
  /\ LET duration == IF duration_str \in DOMAIN ParsedTexts THEN ParsedTexts[duration_str]
                     ELSE parse_duration(duration_str) IN
     IF invalid_duration(duration)
     THEN /\ ret' = Return(<<FALSE, MsgInvalidDuration, None>>)
          /\ UNCHANGED <<clock, store, up, current_session_id>>
     ELSE IF task_name = <<>> \/ StrippedNames[task_name] = <<>> \/ is_session_active(e)
     THEN /\ ret' = Return(<<FALSE, MsgEmptyTask, None>>)
          /\ UNCHANGED <<clock, store, up, current_session_id>>
     ELSE LET entry_id == seq_manual_entries + 1 IN
          /\ seq_manual_entries < MaxEntries
          /\ seq_manual_entries' = entry_id
          /\ manual_entries' = manual_entries @@
               (entry_id :> add_manual_entry_row(StrippedNames[task_name], Val(duration), None))
          /\ ret' = Return(<<TRUE,
                             <<"Added ", format_duration(Val(duration)), " for '",
                               task_name, "'">>,
                             Some(entry_id)>>)
          /\ UNCHANGED <<clock, work_sessions, seq_work_sessions, up, current_session_id>>

add_manual_entry(e, task_name, duration_str) ==
  /\ up[e]
  /\ Call("addManualEntry", e, <<task_name, duration_str>>)
  /\ LET duration == IF duration_str \in DOMAIN ParsedTexts THEN ParsedTexts[duration_str]
                     ELSE parse_duration(duration_str) IN
     IF invalid_duration(duration)
     THEN /\ ret' = Return(<<FALSE, MsgInvalidDuration, None>>)
          /\ UNCHANGED <<clock, store, up, current_session_id>>
     ELSE IF task_name = <<>> \/ StrippedNames[task_name] = <<>>
     THEN /\ ret' = Return(<<FALSE, MsgEmptyTask, None>>)
          /\ UNCHANGED <<clock, store, up, current_session_id>>
     ELSE LET entry_id == seq_manual_entries + 1 IN
          /\ seq_manual_entries < MaxEntries
          /\ seq_manual_entries' = entry_id
          /\ manual_entries' = manual_entries @@
               (entry_id :> add_manual_entry_row(StrippedNames[task_name], Val(duration), None))
          /\ ret' = Return(<<TRUE,
                             <<"Added ", format_duration(Val(duration)), " for '",
                               task_name, "'">>,
                             Some(entry_id)>>)
          /\ UNCHANGED <<clock, work_sessions, seq_work_sessions, up, current_session_id>>

\* the parameters of add_manual_entry(self, task_name, duration_str, notes=None)
AddManualEntryParameters == {"task_name", "duration_str", "notes"}

\* tracker.add_manual_entry(task_name=..., duration_str=..., date=...), the
\* call of a caller that passes a date: a keyword that is no parameter of
\* the method raises TypeError before its body runs
add_manual_entry_dated(e, task_name, duration_str, date) ==
  /\ up[e]
  /\ Call("addManualEntryDated", e, <<task_name, duration_str, date>>)
  /\ IF {"task_name", "duration_str", "date"} \subseteq AddManualEntryParameters
     THEN FALSE
     ELSE ret' = Raise("TypeError")
  /\ UNCHANGED <<clock, store, up, current_session_id>>

\* the loops of get_daily_summary over the rows read
RECURSIVE AddSessions(_, _)
AddSessions(summary, rows) ==
  IF rows = <<>> THEN summary
  ELSE AddSessions(add_session(summary, Head(rows)), Tail(rows))
RECURSIVE AddEntries(_, _)
AddEntries(summary, rows) ==
  IF rows = <<>> THEN summary
  ELSE AddEntries(summary_add_manual_entry(summary, Head(rows)), Tail(rows))

\* mutant: the loop over the sessions without the test of the duration
completed_sessions_unfiltered(sessions) == sessions

\* if session_data.get('duration'): the rows the loop passes on
completed_sessions(sessions) ==
  SelectSeq(sessions, LAMBDA row : TruthyInt(row.duration))

\* the body of get_daily_summary(date) over the tables given, on the day
\* given: the summary returned, or the exception raised
daily_summary(sessions_table, entries_table, today, date) ==
  LET summary == DailySummary(IF date = None THEN today ELSE Val(date))
      ids == today_sessions(sessions_table, today)
      completed == completed_sessions([k \in DOMAIN ids |-> sessions_table[ids[k]]])
      entry_ids == today_manual_entries(entries_table, today)
      entries == [k \in DOMAIN entry_ids |-> entries_table[entry_ids[k]]]
  IN IF completed # <<>> /\ ~WorkSession_accepts(WorkSessionsColumns)
     THEN Raise("TypeError")
     ELSE IF entries # <<>> /\ ~ManualEntry_accepts(ManualEntriesColumns)
     THEN Raise("TypeError")
     ELSE Return(AddEntries(AddSessions(summary, completed), entries))

\* mutant: the summary object of the previous query is kept and filled again
get_daily_summary_kept_object(e, date) ==
  /\ up[e]
  /\ Call("summary", e, date)
  /\ LET r == daily_summary(work_sessions, manual_entries, get_today_date, date)
     IN ret' = IF r.exc = None /\ op.name = "summary" /\ ret.exc = None
               THEN Return([date |-> ret.val.date,
                            total_duration |-> ret.val.total_duration + r.val.total_duration,
                            session_count |-> ret.val.session_count + r.val.session_count,
                            manual_entry_count |->
                              ret.val.manual_entry_count + r.val.manual_entry_count,
                            tasks |-> ret.val.tasks \o r.val.tasks])
               ELSE r
  /\ UNCHANGED <<clock, store, up, current_session_id>>

get_daily_summary(e, date) ==
  /\ up[e]
  /\ Call("summary", e, date)
  /\ ret' = daily_summary(work_sessions, manual_entries, get_today_date, date)
  /\ UNCHANGED <<clock, store, up, current_session_id>>

\* ---- src/models.py: a DailySummary object and its callers ----------------
\* The object is ret.val; op.arg lists the sessions and entries added to it
\* so far, the last of them by the call op.name.

\* summary = DailySummary(date=...)
NewDailySummary ==
  /\ op.name = "init"
  /\ op' = [name |-> "DailySummary", e |-> 0, arg |-> <<>>]
  /\ ret' = Return(DailySummary(get_today_date))
  /\ UNCHANGED <<clock, store, up, current_session_id, pre>>

\* summary.add_session(session)
DailySummary_add_session(session) ==
  /\ op.name \in {"DailySummary", "add_session", "add_manual_entry"}
  /\ Len(op.arg) < MaxItems
  /\ op' = [name |-> "add_session", e |-> 0,
            arg |-> Append(op.arg, [kind |-> "session", item |-> session])]
  /\ ret' = Return(add_session(ret.val, session))
  /\ UNCHANGED <<clock, store, up, current_session_id, pre>>

\* summary.add_manual_entry(entry)
DailySummary_add_manual_entry(entry) ==
  /\ op.name \in {"DailySummary", "add_session", "add_manual_entry"}
  /\ Len(op.arg) < MaxItems
  /\ op' = [name |-> "add_manual_entry", e |-> 0,
            arg |-> Append(op.arg, [kind |-> "entry", item |-> entry])]
  /\ ret' = Return(summary_add_manual_entry(ret.val, entry))
  /\ UNCHANGED <<clock, store, up, current_session_id, pre>>

\* ---- src/utils.py: parse_duration and its caller --------------------------

\* utils.parse_duration(text) on the text at hand
parse_duration_call ==
  /\ op.name = "text"
  /\ op' = [name |-> "parse", e |-> 0, arg |-> op.arg]
  /\ ret' = Return(parse_duration(TextOf(op.arg)))
  /\ UNCHANGED <<clock, store, up, current_session_id, pre>>

\* tracker.add_manual_entry(task_name, text) with the text parsed before
add_manual_entry_text(task_name) ==
  /\ op.name = "parse"
  /\ add_manual_entry(1, task_name, TextOf(op.arg))

\* ---- src/utils.py: the formatters ----------------------------------------

\* utils.format_duration(seconds) on the duration at hand
format_duration_call ==
  /\ op.name = "seconds"
  /\ op' = [name |-> "format_duration", e |-> 0, arg |-> op.arg]
  /\ ret' = Return(format_duration(op.arg))
  /\ UNCHANGED <<clock, store, up, current_session_id, pre>>

\* utils.format_duration_detailed(seconds) on the duration at hand
format_duration_detailed_call ==
  /\ op.name = "seconds"
  /\ op' = [name |-> "format_duration_detailed", e |-> 0, arg |-> op.arg]
  /\ ret' = Return(format_duration_detailed(op.arg))
  /\ UNCHANGED <<clock, store, up, current_session_id, pre>>

\* ---- the host clock ------------------------------------------------------

\* the instants of the clock, counted: two a day
ClockIndex == 2 * (clock \div SecondsPerDay) + (clock % SecondsPerDay)

\* the first second of the day passes
Tick ==
  /\ clock % SecondsPerDay = 0
  /\ ClockIndex + 1 <= MaxTime
  /\ clock' = clock + 1
  /\ UNCHANGED <<store, up, current_session_id, op, pre, ret>>

\* the rest of the day passes
Midnight ==
  /\ 2 * (clock \div SecondsPerDay + 1) <= MaxTime
  /\ clock' = (clock \div SecondsPerDay + 1) * SecondsPerDay
  /\ UNCHANGED <<store, up, current_session_id, op, pre, ret>>

\* ---- specifications ------------------------------------------------------

Init ==
  /\ clock = 0
  /\ work_sessions = <<>>
  /\ seq_work_sessions = 0
  /\ manual_entries = <<>>
  /\ seq_manual_entries = 0
  /\ up = [e \in Engines |-> FALSE]
  /\ current_session_id = [e \in Engines |-> None]
  /\ op = [name |-> "init", e |-> 0, arg |-> None]
  /\ pre = [clock |-> 0, work_sessions |-> <<>>, seq_work_sessions |-> 0,
            manual_entries |-> <<>>, seq_manual_entries |-> 0,
            current_session_id |-> [e \in Engines |-> None]]
  /\ ret = Return(None)

\* one engine at a time over the store: the process of engine 1, which may
\* end and be started again; its sessions carry the label "A"
Next ==
  \/ Construct(1)
  \/ Exit(1)
  \/ start_session(1, Some(<<"A">>))
  \/ stop_session(1)
  \/ cancel_current_session(1)
  \/ get_current_session_duration(1)
  \/ \E t \in EntryTaskNames, d \in DurationTexts : add_manual_entry(1, t, d)
  \/ \E d \in SummaryDates : get_daily_summary(1, d)
  \/ Tick
  \/ Midnight

Spec == Init /\ [][Next]_vars

\* two engines, each constructed once, share the store and their session
\* calls interleave
NextShared ==
  \/ \E e \in Engines : Construct(e)
  \/ \E e \in Engines, t \in TaskNames : start_session(e, t)
  \/ \E e \in Engines : stop_session(e)
  \/ \E e \in Engines : cancel_current_session(e)
  \/ Tick
  \/ Midnight

SpecShared == Init /\ [][NextShared]_vars

\* one engine that adds manual entries, with and without a date, next to
\* sessions it starts and stops
NextEntries ==
  \/ Construct(1)
  \/ start_session(1, None)
  \/ stop_session(1)
  \/ \E t \in EntryTaskNames, d \in DurationTexts \cup OtherDurationTexts :
       add_manual_entry(1, t, d)
  \/ \E D \in EntryDates : add_manual_entry_dated(1, <<" ", "A">>, <<"9", "0", "m">>, D)
  \/ Tick
  \/ Midnight

SpecEntries == Init /\ [][NextEntries]_vars

\* a DailySummary object a caller fills with sessions and entries
NextSummary ==
  \/ NewDailySummary
  \/ \E session \in SummarySessions : DailySummary_add_session(session)
  \/ \E entry \in SummaryEntries : DailySummary_add_manual_entry(entry)

SpecSummary == Init /\ [][NextSummary]_vars

\* a text is at hand in a process whose engine is constructed over the
\* empty store; it is parsed, and then handed to add_manual_entry
InitParse ==
  /\ clock = 0
  /\ work_sessions = <<>>
  /\ seq_work_sessions = 0
  /\ manual_entries = <<>>
  /\ seq_manual_entries = 0
  /\ up = [e \in Engines |-> e = 1]
  /\ current_session_id = [e \in Engines |-> None]
  /\ \E input \in ParseInputs : op = [name |-> "text", e |-> 0, arg |-> input]
  /\ pre = [clock |-> 0, work_sessions |-> <<>>, seq_work_sessions |-> 0,
            manual_entries |-> <<>>, seq_manual_entries |-> 0,
            current_session_id |-> [e \in Engines |-> None]]
  /\ ret = Return(None)

NextParse ==
  \/ parse_duration_call
  \/ \E t \in EntryTaskNames : add_manual_entry_text(t)

SpecParse == InitParse /\ [][NextParse]_vars

\* two engines share the store, and the process of either may end and be
\* started again while the other has a session running
NextRestart ==
  \/ \E e \in Engines : Construct(e)
  \/ \E e \in Engines : Exit(e)
  \/ \E e \in Engines : start_session(e, None)
  \/ \E e \in Engines : stop_session(e)
  \/ \E e \in Engines : cancel_current_session(e)
  \/ Tick

SpecRestart == Init /\ [][NextRestart]_vars

\* two engines share a database whose statements may raise
NextStorage ==
  \/ \E e \in Engines : Construct(e)
  \/ \E e \in Engines, raises \in BOOLEAN : start_session_storage(e, None, raises)
  \/ \E e \in Engines, raises \in BOOLEAN : stop_session_storage(e, raises)
  \/ \E e \in Engines, raises \in BOOLEAN : cancel_current_session_storage(e, raises)
  \/ Tick

SpecStorage == Init /\ [][NextStorage]_vars

\* a duration in seconds is at hand and is formatted one way or the other
InitFormat ==
  /\ clock = 0
  /\ work_sessions = <<>>
  /\ seq_work_sessions = 0
  /\ manual_entries = <<>>
  /\ seq_manual_entries = 0
  /\ up = [e \in Engines |-> FALSE]
  /\ current_session_id = [e \in Engines |-> None]
  /\ \E seconds \in FormatSeconds : op = [name |-> "seconds", e |-> 0, arg |-> seconds]
  /\ pre = [clock |-> 0, work_sessions |-> <<>>, seq_work_sessions |-> 0,
            manual_entries |-> <<>>, seq_manual_entries |-> 0,
            current_session_id |-> [e \in Engines |-> None]]
  /\ ret = Return(None)

NextFormat ==
  \/ format_duration_call
  \/ format_duration_detailed_call

SpecFormat == InitFormat /\ [][NextFormat]_vars

\* ---- properties ----------------------------------------------------------
\* op, pre and ret describe the last call: pre is the state it was made in,
\* and the store and the engines have not changed since it returned.

Stamp(secs) == [date |-> secs \div SecondsPerDay, time |-> secs % SecondsPerDay]
StartSecs(row) == row.start_time.date * SecondsPerDay + row.start_time.time
UnendedIn(table) == {i \in DOMAIN table : table[i].end_time = None}
PreId == Val(pre.current_session_id[op.e])
StoreAsBefore ==
  /\ work_sessions = pre.work_sessions
  /\ seq_work_sessions = pre.seq_work_sessions
  /\ manual_entries = pre.manual_entries
  /\ seq_manual_entries = pre.seq_manual_entries
EntriesAsBefore ==
  /\ manual_entries = pre.manual_entries
  /\ seq_manual_entries = pre.seq_manual_entries

\* C1: with one engine at a time over a store that starts empty, whatever
\* calls and restarts happen, at most one session has no end timestamp.
C1_AtMostOneUnended == Cardinality(UnendedIn(work_sessions)) <= 1

\* a restarted engine adopted the running session, next to a finished one
C1_Witness ==
  /\ op.name = "construct"
  /\ current_session_id[op.e] # None
  /\ Cardinality(UnendedIn(work_sessions)) = 1
  /\ Cardinality(DOMAIN work_sessions) = 2

\* C2: start() on an engine that is active returns None, inserts no row,
\* keeps current_session_id and changes no field of any row.
C2_StartWhileActive ==
  (op.name = "start" /\ pre.current_session_id[op.e] # None) =>
    /\ ret = Return(None)
    /\ StoreAsBefore
    /\ current_session_id = pre.current_session_id

\* start() with another label was refused while the session was running
C2_Witness ==
  /\ op.name = "start"
  /\ ret = Return(None)
  /\ pre.current_session_id[op.e] # None
  /\ PreId \in DOMAIN work_sessions
  /\ work_sessions[PreId].task_name # op.arg

\* C3: start(task) on an engine that is inactive inserts exactly one row,
\* with start = now, no end, no duration and the label given, under an id not
\* in the table; that id becomes current_session_id and is returned.
C3_StartWhileInactive ==
  (op.name = "start" /\ pre.current_session_id[op.e] = None) =>
    \E id \in (DOMAIN work_sessions) \ (DOMAIN pre.work_sessions) :
      /\ DOMAIN work_sessions = (DOMAIN pre.work_sessions) \cup {id}
      /\ \A i \in DOMAIN pre.work_sessions : work_sessions[i] = pre.work_sessions[i]
      /\ work_sessions[id].start_time = Stamp(pre.clock)
      /\ work_sessions[id].end_time = None
      /\ work_sessions[id].duration = None
      /\ work_sessions[id].task_name = op.arg
      /\ current_session_id = [pre.current_session_id EXCEPT ![op.e] = Some(id)]
      /\ ret = Return(Some(id))
      /\ EntriesAsBefore

\* a labelled session was started after the clock had advanced, next to
\* an older row
C3_Witness ==
  /\ op.name = "start"
  /\ ret.val # None
  /\ op.arg = Some(<<"A">>)
  /\ current_session_id[op.e] = ret.val
  /\ Cardinality(DOMAIN work_sessions) = 2
  /\ StartSecs(work_sessions[Val(ret.val)]) > 0

\* C4: stop() on an active engine whose current row exists sets that row's
\* end to now and its duration to now - stored start in whole seconds,
\* changes no other row and no manual entry, returns True and leaves the
\* engine inactive.
C4_StopFinalizes ==
  (/\ op.name = "stop"
   /\ pre.current_session_id[op.e] # None
   /\ PreId \in DOMAIN pre.work_sessions) =>
    /\ work_sessions =
         [pre.work_sessions EXCEPT
            ![PreId].end_time = Some(Stamp(pre.clock)),
            ![PreId].duration = Some(pre.clock - StartSecs(pre.work_sessions[PreId]))]
    /\ seq_work_sessions = pre.seq_work_sessions
    /\ EntriesAsBefore
    /\ ret = Return(TRUE)
    /\ current_session_id = [pre.current_session_id EXCEPT ![op.e] = None]

\* a session that ran over midnight was stopped, with a manual entry and
\* another row in the store
C4_Witness ==
  /\ op.name = "stop"
  /\ ret = Return(TRUE)
  /\ current_session_id[op.e] = None
  /\ DOMAIN manual_entries # {}
  /\ Cardinality(DOMAIN work_sessions) = 2
  /\ work_sessions[PreId].end_time = Some(Stamp(pre.clock))
  /\ Val(work_sessions[PreId].duration) > SecondsPerDay

\* C5: stop() on an active engine always leaves it inactive, also when the
\* current row is gone, and returns False exactly in that case.
C5_StopAlwaysClears ==
  (op.name = "stop" /\ pre.current_session_id[op.e] # None) =>
    /\ current_session_id[op.e] = None
    /\ ret = Return(PreId \in DOMAIN pre.work_sessions)

\* C6: cancel() on an active engine deletes the current row, clears
\* current_session_id and returns True; no call brings a deleted session
\* back to the store, so it never gets an end or a duration, and a summary
\* counts no more sessions than the store holds finished.
C6_CancelDiscards ==
  /\ (op.name = "cancel" /\ pre.current_session_id[op.e] # None) =>
       /\ DOMAIN work_sessions = (DOMAIN pre.work_sessions) \ {PreId}
       /\ \A i \in DOMAIN work_sessions : work_sessions[i] = pre.work_sessions[i]
       /\ seq_work_sessions = pre.seq_work_sessions
       /\ EntriesAsBefore
       /\ current_session_id = [pre.current_session_id EXCEPT ![op.e] = None]
       /\ ret = Return(TRUE)
  /\ \A id \in 1..pre.seq_work_sessions :
       id \notin DOMAIN pre.work_sessions => id \notin DOMAIN work_sessions
  /\ (op.name = "summary" /\ ret.exc = None) =>
       ret.val.session_count <=
         Cardinality({i \in DOMAIN work_sessions : work_sessions[i].duration # None})

\* the second session was cancelled while the first stays in the store
C6_Witness ==
  /\ op.name = "cancel"
  /\ ret = Return(TRUE)
  /\ current_session_id[op.e] = None
  /\ PreId = 2
  /\ DOMAIN work_sessions = {1}

\* C7: stop() and cancel() on an inactive engine return False and change
\* neither the store nor current_session_id.
C7_InactiveStopCancel ==
  (op.name \in {"stop", "cancel"} /\ pre.current_session_id[op.e] = None) =>
    /\ ret = Return(FALSE)
    /\ StoreAsBefore
    /\ current_session_id = pre.current_session_id

\* cancel() was refused on an inactive engine over a store with rows
C7_Witness ==
  /\ op.name = "cancel"
  /\ ret = Return(FALSE)
  /\ current_session_id[op.e] = None
  /\ DOMAIN work_sessions # {}
  /\ DOMAIN manual_entries # {}

\* C8: currentDuration() returns 0 when inactive and now - start of the
\* current session when active, and changes neither the store nor
\* current_session_id.
C8_CurrentDuration ==
  op.name = "currentDuration" =>
    /\ StoreAsBefore
    /\ current_session_id = pre.current_session_id
    /\ ret = Return(IF pre.current_session_id[op.e] = None THEN 0
                    ELSE pre.clock - StartSecs(pre.work_sessions[PreId]))

\* C9: in every row of work_sessions the duration is set exactly when the
\* end timestamp is set.
C9_DurationIffEnd ==
  \A i \in DOMAIN work_sessions :
    (work_sessions[i].duration # None) <=> (work_sessions[i].end_time # None)

\* a finished row and a running row side by side
C9_Witness ==
  /\ \E i \in DOMAIN work_sessions :
       work_sessions[i].end_time # None /\ work_sessions[i].duration # None
  /\ \E i \in DOMAIN work_sessions :
       work_sessions[i].end_time = None /\ work_sessions[i].duration = None

\* C10: an engine constructed over a store with exactly one unended session
\* has that session's id as current_session_id; constructed over a store
\* with no unended session it is inactive.
C10_RestartAdopts ==
  op.name = "construct" =>
    /\ UnendedIn(pre.work_sessions) = {} => current_session_id[op.e] = None
    /\ \A i \in UnendedIn(pre.work_sessions) :
         UnendedIn(pre.work_sessions) = {i} => current_session_id[op.e] = Some(i)

\* an engine was constructed later than the start of the one unended
\* session, next to a finished session, and adopted it
C10_Witness ==
  /\ op.name = "construct"
  /\ \E i \in UnendedIn(pre.work_sessions) :
       /\ UnendedIn(pre.work_sessions) = {i}
       /\ current_session_id[op.e] = Some(i)
       /\ StartSecs(work_sessions[i]) < pre.clock
  /\ \E j \in DOMAIN work_sessions : work_sessions[j].end_time # None

\* C11: addManualEntry returns (False, the invalid-duration message, None)
\* when the duration text does not parse or parses to a value <= 0, whatever
\* the task name, and otherwise (False, the empty-task message, None) when
\* the task name is empty after trimming; it raises nothing and leaves the
\* store as it was.
C11_RejectsInvalid ==
  op.name = "addManualEntry" =>
    LET task_name == op.arg[1]
        duration == ParsedTexts[op.arg[2]]
    IN /\ ret.exc = None
       /\ (duration = None \/ Val(duration) <= 0) =>
            /\ ret.val = <<FALSE,
                           "Invalid duration format. Use formats like '2h 30m', '90m', or '1.5h'.",
                           None>>
            /\ StoreAsBefore
       /\ (duration # None /\ Val(duration) > 0 /\ strip(task_name) = <<>>) =>
            /\ ret.val = <<FALSE, "Task name cannot be empty.", None>>
            /\ StoreAsBefore

\* a text that parses to 0 was rejected for its duration although the task
\* name is empty too, over a store that holds an entry and a session
C11_Witness ==
  /\ op.name = "addManualEntry"
  /\ op.arg = <<<<" ">>, <<"0", "h">>>>
  /\ ret.val[1] = FALSE
  /\ ret.val[2] # "Task name cannot be empty."
  /\ DOMAIN manual_entries # {}
  /\ DOMAIN work_sessions # {}

\* C12: addManualEntry with a text that parses to d > 0 and a task name
\* that is not empty after trimming inserts exactly one manual entry, with
\* duration d, the trimmed task name and today's date, and returns (True,
\* "Added {format_duration(d)} for '{task_name}'", its id); every manual
\* entry of the store has a positive duration and a non-empty label.
C12_AddsEntry ==
  /\ op.name = "addManualEntry" =>
       LET task_name == op.arg[1]
           duration == ParsedTexts[op.arg[2]]
       IN (duration # None /\ Val(duration) > 0 /\ strip(task_name) # <<>>) =>
            \E id \in (DOMAIN manual_entries) \ (DOMAIN pre.manual_entries) :
              /\ DOMAIN manual_entries = (DOMAIN pre.manual_entries) \cup {id}
              /\ \A i \in DOMAIN pre.manual_entries :
                   manual_entries[i] = pre.manual_entries[i]
              /\ manual_entries[id].duration = Val(duration)
              /\ manual_entries[id].task_name = strip(task_name)
              /\ manual_entries[id].date = pre.clock \div SecondsPerDay
              /\ ret = Return(<<TRUE,
                                <<"Added ", format_duration(Val(duration)), " for '",
                                  task_name, "'">>,
                                Some(id)>>)
              /\ work_sessions = pre.work_sessions
              /\ seq_work_sessions = pre.seq_work_sessions
  /\ \A i \in DOMAIN manual_entries :
       manual_entries[i].duration > 0 /\ manual_entries[i].task_name # <<>>

\* " A" with "90m" was added on the second day: 5400 seconds under the
\* label "A", reported as "1h 30m" for ' A'
C12_Witness ==
  /\ op.name = "addManualEntry"
  /\ ret.val[1] = TRUE
  /\ ret.val[2] = <<"Added ", <<"1", "h", " ", "3", "0", "m">>, " for '", <<" ", "A">>, "'">>
  /\ manual_entries[Val(ret.val[3])].date = 1
  /\ manual_entries[Val(ret.val[3])].task_name = <<"A">>
  /\ manual_entries[Val(ret.val[3])].duration = 5400

\* C13: a valid manual entry added with an explicit date D is stored with
\* the date D.
C13_AddsEntryForDate ==
  op.name = "addManualEntryDated" =>
    /\ ret.exc = None
    /\ \E id \in (DOMAIN manual_entries) \ (DOMAIN pre.manual_entries) :
         manual_entries[id].date = op.arg[3]

\* the sum of f over the set S
RECURSIVE SumOver(_, _)
SumOver(S, f) ==
  IF S = {} THEN 0 ELSE LET x == CHOOSE y \in S : TRUE IN f[x] + SumOver(S \ {x}, f)

\* the day a summary was asked on, and the date it was asked for
PreToday == pre.clock \div SecondsPerDay
SummaryDate == IF op.arg = None THEN PreToday ELSE Val(op.arg)

\* C14: a summary that is returned counts every session supplied whose
\* duration is set, one of 0 seconds too, and every manual entry supplied:
\* sessionCount and manualEntryCount are their numbers and the total is the
\* sum of their durations.  The rows supplied are those get_daily_summary
\* reads: the sessions started today and the entries dated today.
C14_SummaryCounts ==
  (op.name = "summary" /\ ret.exc = None) =>
    LET finished == {i \in DOMAIN pre.work_sessions :
                       /\ pre.work_sessions[i].start_time.date = PreToday
                       /\ pre.work_sessions[i].duration # None}
        entries == {i \in DOMAIN pre.manual_entries :
                      pre.manual_entries[i].date = PreToday}
    IN /\ ret.val.session_count = Cardinality(finished)
       /\ ret.val.manual_entry_count = Cardinality(entries)
       /\ ret.val.total_duration =
            SumOver(finished, [i \in finished |-> Val(pre.work_sessions[i].duration)])
            + SumOver(entries, [i \in entries |-> pre.manual_entries[i].duration])

\* C15: the summary returned for a date D carries the date D and is the
\* aggregate of the sessions started on D and the manual entries dated D,
\* also when D is not today.
C15_SummaryOfDate ==
  (op.name = "summary" /\ ret.exc = None) =>
    LET ids == today_sessions(pre.work_sessions, SummaryDate)
        entry_ids == today_manual_entries(pre.manual_entries, SummaryDate)
    IN /\ ret.val.date = SummaryDate
       /\ ret.val =
            AddEntries(
              AddSessions(DailySummary(SummaryDate),
                          completed_sessions([k \in DOMAIN ids |-> pre.work_sessions[ids[k]]])),
              [k \in DOMAIN entry_ids |-> pre.manual_entries[entry_ids[k]]])

\* C16: a session in progress is not part of a summary: the summary is that
\* of the store without its unended sessions; after a start() that created
\* a session, and on the same day, every summary is what it was before the
\* start(), while get_active_session returns the new session.
C16_InProgressExcluded ==
  /\ op.name = "summary" =>
       ret = daily_summary(
               [i \in (DOMAIN pre.work_sessions) \ UnendedIn(pre.work_sessions)
                  |-> pre.work_sessions[i]],
               pre.manual_entries, PreToday, op.arg)
  /\ (op.name = "start" /\ ret.val # None) =>
       /\ get_active_session = {Val(ret.val)}
       /\ get_today_date = PreToday =>
            \A date \in SummaryDates :
              daily_summary(work_sessions, manual_entries, get_today_date, date)
                = daily_summary(pre.work_sessions, pre.manual_entries, PreToday, date)

\* a summary was returned while a session started today is in progress,
\* next to a finished session of an earlier day: it counts no session
C16_Witness ==
  /\ op.name = "summary"
  /\ ret.exc = None
  /\ ret.val.session_count = 0
  /\ ret.val.total_duration = 0
  /\ current_session_id[op.e] # None
  /\ get_active_session = {Val(current_session_id[op.e])}
  /\ work_sessions[Val(current_session_id[op.e])].start_time.date = get_today_date
  /\ Cardinality(DOMAIN work_sessions) = 2

\* the items added to the DailySummary object: which of them it counts (an
\* entry, or a session whose duration adds to the counts), their durations
\* and labels
ItemCounted(x) == x.kind = "entry" \/ TruthyInt(x.item.duration)
ItemDuration(x) == IF x.kind = "entry" THEN x.item.duration ELSE Val(x.item.duration)
ItemLabel(x) == IF x.kind = "entry" THEN x.item.task_name
                ELSE IF x.item.task_name = None THEN <<>> ELSE Val(x.item.task_name)
OnSummaryObject == op.name \in {"DailySummary", "add_session", "add_manual_entry"}

\* C17: the breakdown of a summary has exactly one bucket per label that
\* occurs among the items counted, labels compared exactly; a bucket's
\* duration is the sum of the durations of the counted items under its
\* label; items without a label are in no bucket but in the total and the
\* counts; the buckets sum to at most the total, and to the total when
\* every counted item has a label.
C17_Breakdown ==
  OnSummaryObject =>
    LET items == op.arg
        tasks == ret.val.tasks
        counted == {k \in DOMAIN items : ItemCounted(items[k])}
        labelled == {k \in counted : ItemLabel(items[k]) # <<>>}
        durations == [k \in counted |-> ItemDuration(items[k])]
        buckets == SumOver(DOMAIN tasks, [i \in DOMAIN tasks |-> tasks[i].duration])
    IN /\ \A i, j \in DOMAIN tasks : tasks[i].name = tasks[j].name => i = j
       /\ {tasks[i].name : i \in DOMAIN tasks} = {ItemLabel(items[k]) : k \in labelled}
       /\ \A i \in DOMAIN tasks :
            tasks[i].duration =
              SumOver({k \in labelled : ItemLabel(items[k]) = tasks[i].name}, durations)
       /\ ret.val.total_duration = SumOver(counted, durations)
       /\ ret.val.session_count =
            Cardinality({k \in counted : items[k].kind = "session"})
       /\ ret.val.manual_entry_count =
            Cardinality({k \in counted : items[k].kind = "entry"})
       /\ buckets <= ret.val.total_duration
       /\ labelled = counted => buckets = ret.val.total_duration

\* sessions of 30 min "A" and 15 min "A" and an entry of 20 min "B" give
\* the total 65 min, 2 sessions, 1 entry, the buckets A = 45 min, B = 20 min
C17_Witness ==
  /\ op.name = "add_manual_entry"
  /\ Len(op.arg) = 3
  /\ op.arg[1].kind = "session" /\ op.arg[2].kind = "session"
  /\ op.arg[1].item.duration = Some(1800) /\ op.arg[2].item.duration = Some(900)
  /\ ret.val.total_duration = 3900
  /\ ret.val.session_count = 2
  /\ ret.val.manual_entry_count = 1
  /\ Len(ret.val.tasks) = 2
  /\ ret.val.tasks[1].name = <<"A">> /\ ret.val.tasks[1].duration = 2700
  /\ ret.val.tasks[2].name = <<"B">> /\ ret.val.tasks[2].duration = 1200

\* C18: the breakdown list of a summary, as its callers get it, is in the
\* order of descending accumulated duration.
C18_BreakdownSorted ==
  OnSummaryObject =>
    \A i, j \in DOMAIN ret.val.tasks :
      i < j => ret.val.tasks[i].duration >= ret.val.tasks[j].duration

\* what the hour token and the minute token of a text stand for, in
\* seconds: number * 3600 and number * 60, a missing token 0
TokenSeconds(token, per_tenth) ==
  IF token = None THEN 0 ELSE Val(token).num.tenths * per_tenth

\* C19: for a text that holds an hour token, a minute token or both, in
\* either order, with or without whitespace before the unit letter and
\* between the tokens, in either case and between other text, parse returns
\* number * 3600 for the hour token plus number * 60 for the minute token.
C19_ParseTokens ==
  (/\ op.name = "parse"
   /\ op.arg.kind = "tokens"
   /\ (op.arg.h # None \/ op.arg.m # None)) =>
    ret = Return(Some(TokenSeconds(op.arg.h, 360) + TokenSeconds(op.arg.m, 6)))

\* C20: parse raises nothing; it returns None for a text that is empty or
\* whitespace and for one that has no h/m token and is no bare number; a
\* bare number, signed or not, is taken as hours; and addManualEntry rejects
\* every text that parses to None or to a value <= 0.
C20_ParseBare ==
  /\ op.name = "parse" =>
       /\ ret.exc = None
       /\ (op.arg.kind = "tokens" /\ op.arg.h = None /\ op.arg.m = None) =>
            ret.val = None
       /\ (op.arg.kind = "bare" /\ (op.arg.num = None \/ op.arg.tail = <<"x">>)) =>
            ret.val = None
       /\ (op.arg.kind = "bare" /\ op.arg.num # None /\ op.arg.tail # <<"x">>) =>
            ret.val = Some((IF op.arg.sign = <<"-">> THEN -1 ELSE 1)
                             * Val(op.arg.num).tenths * 360)
  /\ op.name = "addManualEntry" =>
       LET duration == parse_duration(op.arg[2])
       IN (duration = None \/ Val(duration) <= 0) =>
            /\ ret = Return(<<FALSE,
                              "Invalid duration format. Use formats like '2h 30m', '90m', or '1.5h'.",
                              None>>)
            /\ StoreAsBefore

\* the pieces of text between the occurrences of sep
RECURSIVE Split(_, _)
Split(text, sep) ==
  IF \A i \in DOMAIN text : text[i] # sep THEN <<text>>
  ELSE LET i == CHOOSE j \in DOMAIN text :
                  text[j] = sep /\ \A k \in 1..(j - 1) : text[k] # sep
       IN <<SubSeq(text, 1, i - 1)>> \o Split(SubSeq(text, i + 1, Len(text)), sep)

IsNumber(text) == text # <<>> /\ \A i \in DOMAIN text : IsDigit(text[i])

\* the number a run of decimal digits denotes
RECURSIVE NumberOf(_)
NumberOf(digits) ==
  IF digits = <<>> THEN 0
  ELSE 10 * NumberOf(SubSeq(digits, 1, Len(digits) - 1)) + DigitVal(digits[Len(digits)])

\* C21: format_duration_detailed(s) is H:MM:SS, where H has two digits or
\* more, MM and SS have two digits and lie in 00..59, and for s >= 0 the
\* fields denote s: H * 3600 + MM * 60 + SS = s, with no cap on H; a negative
\* s gives 00:00:00.
C21_ClockFormat ==
  op.name = "format_duration_detailed" =>
    /\ ret.exc = None
    /\ LET fields == Split(ret.val, ":")
       IN /\ Len(fields) = 3
          /\ \A i \in 1..3 : IsNumber(fields[i])
          /\ Len(fields[1]) >= 2
          /\ Len(fields[2]) = 2 /\ NumberOf(fields[2]) \in 0..59
          /\ Len(fields[3]) = 2 /\ NumberOf(fields[3]) \in 0..59
          /\ IF op.arg >= 0
             THEN NumberOf(fields[1]) * 3600 + NumberOf(fields[2]) * 60
                    + NumberOf(fields[3]) = op.arg
             ELSE ret.val = <<"0", "0", ":", "0", "0", ":", "0", "0">>

\* a hundred hours and more are formatted with three digits of hours and
\* single digits of minutes and seconds are padded
C21_Witness ==
  /\ op.name = "format_duration_detailed"
  /\ op.arg >= 100 * 3600 + 60 + 1
  /\ Len(Split(ret.val, ":")[1]) = 3
  /\ SubSeq(ret.val, 4, 9) = <<":", "0", "1", ":", "0", "1">>

\* the words of a compact duration text, each read as a number and a unit
Words(text) == Split(text, " ")
WordNumber(word) == SubSeq(word, 1, Len(word) - 1)
WordsRead(text) ==
  [i \in DOMAIN Words(text) |->
     [n |-> NumberOf(WordNumber(Words(text)[i])),
      unit |-> Words(text)[i][Len(Words(text)[i])]]]
UnitSeconds(unit) ==
  IF unit = "h" THEN 3600 ELSE IF unit = "m" THEN 60 ELSE 1
RECURSIVE Denoted(_)
Denoted(read) ==
  IF read = <<>> THEN 0
  ELSE Head(read).n * UnitSeconds(Head(read).unit) + Denoted(Tail(read))

\* C22: format_duration(s) is "0s" for negative s; otherwise, with h, m, sec
\* the hours, minutes and seconds of s, it is "{h}h {m}m" when h > 0 and
\* m > 0, "{h}h" when h > 0 and m = 0, "{m}m {sec}s" when h = 0, m > 0 and
\* sec > 0, "{m}m" when h = 0, m > 0 and sec = 0, and "{sec}s" when h = 0 and
\* m = 0.  The text has at most two units, denotes no more than s and less
\* than 60 seconds fewer; 9000 gives "2h 30m", 45 gives "45s", 0 gives "0s".
C22_CompactFormat ==
  op.name = "format_duration" =>
    /\ ret.exc = None
    /\ LET s == op.arg
           h == s \div 3600
           m == (s % 3600) \div 60
           sec == s % 60
           read == WordsRead(ret.val)
       IN /\ \A i \in DOMAIN Words(ret.val) :
               LET word == Words(ret.val)[i]
               IN /\ Len(word) >= 2
                  /\ IsNumber(WordNumber(word))
                  /\ Len(word) > 2 => word[1] # "0"
                  /\ word[Len(word)] \in {"h", "m", "s"}
          /\ read =
               IF s < 0 THEN <<[n |-> 0, unit |-> "s"]>>
               ELSE IF h > 0 /\ m > 0
                    THEN <<[n |-> h, unit |-> "h"], [n |-> m, unit |-> "m"]>>
               ELSE IF h > 0 THEN <<[n |-> h, unit |-> "h"]>>
               ELSE IF m > 0 /\ sec > 0
                    THEN <<[n |-> m, unit |-> "m"], [n |-> sec, unit |-> "s"]>>
               ELSE IF m > 0 THEN <<[n |-> m, unit |-> "m"]>>
               ELSE <<[n |-> sec, unit |-> "s"]>>
          /\ Len(read) <= 2
          /\ s >= 0 => Denoted(read) <= s /\ s - Denoted(read) < 60
          /\ s = 9000 => ret.val = <<"2", "h", " ", "3", "0", "m">>
          /\ s = 45 => ret.val = <<"4", "5", "s">>
          /\ s = 0 => ret.val = <<"0", "s">>

\* a duration with hours, minutes and seconds is shown without its seconds
C22_Witness ==
  /\ op.name = "format_duration"
  /\ op.arg = 2 * 3600 + 30 * 60 + 45
  /\ ret.val = <<"2", "h", " ", "3", "0", "m">>
  /\ Denoted(WordsRead(ret.val)) = op.arg - 45

C23_WitnessRaises ==
  /\ op.name = "start"
  /\ pre.current_session_id[op.e] = None
  /\ ret.exc = Some("OperationalError")
  /\ current_session_id[op.e] = None
  /\ StoreAsBefore

\* C24: session ids are never reused.  The id a successful start returns is
\* greater than the sequence of the table was before the call, the sequence
\* is that id afterwards, it bounds every id in the table and no call lowers
\* it, cancel included: so the id differs from the id of every session
\* created before in the store, deleted or not.
C24_IdsNeverReused ==
  /\ seq_work_sessions >= pre.seq_work_sessions
  /\ \A id \in DOMAIN work_sessions : id <= seq_work_sessions
  /\ \A id \in DOMAIN pre.work_sessions : id <= pre.seq_work_sessions
  /\ (op.name = "start" /\ ret.val # None) =>
       /\ Val(ret.val) > pre.seq_work_sessions
       /\ Val(ret.val) = seq_work_sessions
       /\ Val(ret.val) \notin DOMAIN pre.work_sessions
  /\ op.name # "start" => seq_work_sessions = pre.seq_work_sessions

\* a start after the first session was cancelled and deleted returns id 2
C24_Witness ==
  /\ op.name = "start"
  /\ pre.work_sessions = <<>>
  /\ pre.seq_work_sessions = 1
  /\ ret = Return(Some(2))
  /\ DOMAIN work_sessions = {2}

\* C25: a session that stop has ended is not touched again by the engine.
\* Whatever the engine is asked next (start, stop, cancel, currentDuration,
\* add_manual_entry, the summary, or its process ending and starting again),
\* every session that had an end timestamp when the call was made is still in
\* the store afterwards with the same start, end, duration and label.
C25_EndedSessionsImmutable ==
  \A id \in DOMAIN pre.work_sessions :
    pre.work_sessions[id].end_time # None =>
      /\ pre.work_sessions[id].duration # None
      /\ id \in DOMAIN work_sessions
      /\ work_sessions[id] = pre.work_sessions[id]

\* a second session is stopped at a later time than the first, which stays
C25_Witness ==
  /\ op.name = "stop"
  /\ ret = Return(TRUE)
  /\ 1 \in DOMAIN pre.work_sessions
  /\ pre.work_sessions[1].end_time # None
  /\ PreId = 2
  /\ work_sessions[2].end_time # work_sessions[1].end_time
  /\ work_sessions[1] = pre.work_sessions[1]

\* C26: nothing protects the single active session from two starters.  With
\* two engines over one store, a start by an engine that holds no session
\* succeeds whatever the store holds, leaving one more session without an end
\* timestamp: two engines that both hold no session both succeed, and the
\* store then has two unended sessions.
C26_UnserializedStarts ==
  (op.name = "start" /\ pre.current_session_id[op.e] = None) =>
    /\ ret.exc = None
    /\ ret.val # None
    /\ Val(ret.val) \notin DOMAIN pre.work_sessions
    /\ UnendedIn(work_sessions) = UnendedIn(pre.work_sessions) \cup {Val(ret.val)}
    /\ current_session_id[op.e] = ret.val

\* both engines were constructed over the empty store, both started, and the
\* store holds two sessions without an end timestamp
C26_Witness ==
  /\ op.name = "start"
  /\ pre.current_session_id[op.e] = None
  /\ \E other \in Engines \ {op.e} :
       /\ pre.current_session_id[other] # None
       /\ current_session_id[other] # current_session_id[op.e]
       /\ Val(current_session_id[other]) \in UnendedIn(pre.work_sessions)
  /\ Cardinality(UnendedIn(work_sessions)) = 2

\* C27: an engine constructed over a store with several sessions without an
\* end timestamp adopts one whose start is the most recent; a stop or cancel
\* by an engine that holds a session touches that session only: every other
\* session, the other unended ones included, stays in the store unchanged.
C27_AdoptsMostRecent ==
  /\ (op.name = "construct" /\ Cardinality(UnendedIn(pre.work_sessions)) >= 2) =>
       /\ current_session_id[op.e] # None
       /\ Val(current_session_id[op.e]) \in UnendedIn(pre.work_sessions)
       /\ \A i \in UnendedIn(pre.work_sessions) :
            StartSecs(pre.work_sessions[i])
              <= StartSecs(pre.work_sessions[Val(current_session_id[op.e])])
       /\ StoreAsBefore
  /\ (op.name \in {"stop", "cancel"} /\ pre.current_session_id[op.e] # None) =>
       \A i \in DOMAIN pre.work_sessions \ {PreId} :
         /\ i \in DOMAIN work_sessions
         /\ work_sessions[i] = pre.work_sessions[i]

\* an engine is constructed over two unended sessions that started at
\* different times and adopts the later one
C27_Witness ==
  /\ op.name = "construct"
  /\ \E i, j \in UnendedIn(pre.work_sessions) :
       /\ StartSecs(pre.work_sessions[i]) < StartSecs(pre.work_sessions[j])
       /\ current_session_id[op.e] = Some(j)

\* the engine that adopted the later of two unended sessions stops it, and
\* the earlier one is left without an end timestamp
C27_WitnessStop ==
  /\ op.name = "stop"
  /\ ret = Return(TRUE)
  /\ Cardinality(UnendedIn(pre.work_sessions)) = 2
  /\ \E i \in UnendedIn(work_sessions) :
       /\ i # PreId
       /\ StartSecs(work_sessions[i]) < StartSecs(work_sessions[PreId])

\* C28: under a single engine, restarts included, over a store that starts
\* empty, the engine and the store agree in every state in which the engine
\* exists: current_session_id is None exactly when the store has no session
\* without an end timestamp, and otherwise it is the id of the one such
\* session, which is in the store.
C28_EngineAgreesWithStore ==
  up[1] =>
    /\ current_session_id[1] = None <=> UnendedIn(work_sessions) = {}
    /\ current_session_id[1] # None =>
         /\ Val(current_session_id[1]) \in DOMAIN work_sessions
         /\ UnendedIn(work_sessions) = {Val(current_session_id[1])}

\* the engine's process was started again while its second session was
\* running, the first one being finished
C28_Witness ==
  /\ op.name = "construct"
  /\ up[1]
  /\ current_session_id[1] = Some(2)
  /\ UnendedIn(work_sessions) = {2}
  /\ DOMAIN work_sessions = {1, 2}

\* the last call was currentDuration by an engine whose session is in the store
DurationAsked ==
  /\ op.name = "currentDuration"
  /\ pre.current_session_id[op.e] # None
  /\ PreId \in DOMAIN pre.work_sessions

\* C29: with a clock that never goes backward, currentDuration on an active
\* session returns a number that is not negative; the next currentDuration
\* for the same session returns no less; and the stop that ends the session
\* stores a duration that is no less than the value returned before it.
C29_DurationMonotone ==
  /\ [](DurationAsked => ret.exc = None /\ ret.val \in Nat)
  /\ [][(DurationAsked /\ ret.exc = None) =>
          /\ (op'.name = "currentDuration" /\ ret'.exc = None)
               => ret'.val >= ret.val
          /\ (op'.name = "stop" /\ ret' = Return(TRUE))
               => Val(work_sessions'[PreId].duration) >= ret.val]_vars

\* C30: the timer and the manual entries are independent.  add_manual_entry,
\* accepted or rejected, changes neither current_session_id nor any session
\* row, and whether it is accepted, and with which message, is decided by
\* its arguments alone, a session being active or not; start, stop and
\* cancel create, change and delete no manual entry.
C30_TimerAndEntriesIndependent ==
  /\ op.name = "addManualEntry" =>
       LET accepted == /\ ParsedTexts[op.arg[2]] # None
                       /\ Val(ParsedTexts[op.arg[2]]) > 0
                       /\ strip(op.arg[1]) # <<>>
       IN /\ current_session_id = pre.current_session_id
          /\ work_sessions = pre.work_sessions
          /\ seq_work_sessions = pre.seq_work_sessions
          /\ ret.exc = None
          /\ ret.val[1] = accepted
          /\ accepted <=> DOMAIN manual_entries # DOMAIN pre.manual_entries
          /\ IF ParsedTexts[op.arg[2]] = None \/ Val(ParsedTexts[op.arg[2]]) <= 0
             THEN ret.val[2] = MsgInvalidDuration
             ELSE IF strip(op.arg[1]) = <<>>
             THEN ret.val[2] = MsgEmptyTask
             ELSE ret.val[2] = <<"Added ", format_duration(Val(ParsedTexts[op.arg[2]])),
                                 " for '", op.arg[1], "'">>
  /\ op.name \in {"start", "stop", "cancel"} => EntriesAsBefore

\* a manual entry was added while a session was running, which runs on
C30_Witness ==
  /\ op.name = "addManualEntry"
  /\ pre.current_session_id[op.e] # None
  /\ ret.val[1] = TRUE
  /\ DOMAIN manual_entries # DOMAIN pre.manual_entries
  /\ current_session_id[op.e] = pre.current_session_id[op.e]
  /\ work_sessions[PreId].end_time = None

\* the running session was cancelled next to a manual entry, which stays
C30_WitnessCancel ==
  /\ op.name = "cancel"
  /\ ret = Return(TRUE)
  /\ DOMAIN manual_entries # {}
  /\ manual_entries = pre.manual_entries

\* C31: two engines over one store hold the same session, one having started
\* it and the other having adopted it when it was constructed.  Once one of
\* them has ended the session with stop, a stop or cancel by the other leaves
\* the session in the store with the end timestamp and the duration it had.
C31_FinalizedSessionKept ==
  (/\ op.name \in {"stop", "cancel"}
   /\ pre.current_session_id[op.e] # None
   /\ PreId \in DOMAIN pre.work_sessions
   /\ pre.work_sessions[PreId].end_time # None) =>
    /\ PreId \in DOMAIN work_sessions
    /\ work_sessions[PreId].end_time = pre.work_sessions[PreId].end_time
    /\ work_sessions[PreId].duration = pre.work_sessions[PreId].duration

\* C32: a daily summary is a pure query.  get_daily_summary changes neither
\* the store nor current_session_id; its outcome is decided by the rows of
\* the store, the day and the date asked for, and by nothing kept from an
\* earlier call, so that a second call for the same date on the same day with
\* no operation in between has the same outcome; and a summary that is
\* returned starts from zero: it carries the date asked for, its total is the
\* sum of the durations of today's finished sessions and entries, and its
\* counts and breakdown do not exceed those rows.
C32_SummaryPureQuery ==
  op.name = "summary" =>
    /\ StoreAsBefore
    /\ current_session_id = pre.current_session_id
    /\ ret = daily_summary(pre.work_sessions, pre.manual_entries, PreToday, op.arg)
    /\ ret.exc = None =>
         LET finished == {i \in DOMAIN work_sessions :
                            /\ work_sessions[i].start_time.date = PreToday
                            /\ work_sessions[i].duration # None}
             entries == {i \in DOMAIN manual_entries : manual_entries[i].date = PreToday}
         IN /\ ret.val.date = SummaryDate
            /\ ret.val.total_duration =
                 SumOver(finished, [i \in finished |-> Val(work_sessions[i].duration)])
                 + SumOver(entries, [i \in entries |-> manual_entries[i].duration])
            /\ ret.val.session_count <= Cardinality(finished)
            /\ ret.val.manual_entry_count <= Cardinality(entries)
            /\ Len(ret.val.tasks) <= Cardinality(finished) + Cardinality(entries)

\* a summary is returned for the day before, on a day on which a session was
\* started and stopped and another one is running
C32_Witness ==
  /\ op.name = "summary"
  /\ ret.exc = None
  /\ op.arg = Some(0)
  /\ PreToday = 1
  /\ ret.val.date = 0
  /\ \E i \in DOMAIN work_sessions :
       work_sessions[i].start_time.date = 1 /\ work_sessions[i].end_time # None
  /\ current_session_id[op.e] # None

====
